---- MODULE Spec2Model ----
(***************************************************************************)
(* Model of streamlit_app.py: the client care letter generator.           *)
(*                                                                         *)
(* Text is modelled as a sequence of tokens.  A token is a TLA+ string     *)
(* that is either one of the template's control tokens ("1.", "<a>",       *)
(* "<ins>", "[a2]", "{our_ref}", " " ...) or an opaque chunk of ordinary   *)
(* text.  A line is a sequence of tokens, a template is a sequence of      *)
(* lines (what str.splitlines returns), Python's None is the string        *)
(* "None", and Python's 0-based indices are 1-based here.                  *)
(***************************************************************************)
EXTENDS Integers, Sequences, FiniteSets, TLC

VARIABLES
    pc,                 \* position of the code being run
    precedent_content,  \* the template text, as its sequence of lines
    i,                  \* preprocess_precedent: index of the next line
    current_block_tag,  \* preprocess_precedent: the open conditional block
    block_lines,        \* preprocess_precedent: the buffered lines
    current_list_type,  \* preprocess_precedent: the active list type
    logical_elements,   \* preprocess_precedent: the elements emitted so far
    app_inputs,         \* the answers: a function from the keys present to their values
    placeholder_map,    \* the dict of get_placeholder_map, as its (key, value) pairs in order
    text_line,          \* add_formatted_runs: the line to render
    processed_text,     \* add_formatted_runs: the line after the substitution loop
    runs,               \* add_formatted_runs: the runs added to the paragraph
    doc,                \* process_precedent_text: the body of the Document, in order
    numbering,          \* process_precedent_text: what was appended to the numbering part
    element_index,      \* process_precedent_text: position of `for element in logical_elements`
    rendered,           \* process_precedent_text: indices of the elements that passed line 271
    result,             \* what process_precedent_text returned to the submitted handler
    failed_at,          \* where the exception the handlers caught was raised
    zip_io,             \* the archive offered for download
    messages            \* st.error / st.success messages shown

parserVars == <<i, current_block_tag, block_lines, current_list_type, logical_elements>>
rendererVars == <<text_line, processed_text, runs>>
assemblerVars == <<doc, numbering, element_index, rendered, result>>
sessionVars == <<failed_at, zip_io, messages>>
vars == <<pc, precedent_content, parserVars, app_inputs, placeholder_map, rendererVars,
          assemblerVars, sessionVars>>

None == "None"
WS == " "

\* ------------------------------------------------------------------------
\* Bounds
\* ------------------------------------------------------------------------
MaxLines == 3      \* lines of a template given to preprocess_precedent
MaxTokens == 4     \* tokens of a line given to add_formatted_runs
MaxBlocks == 1     \* blocks of the template file of a session

\* ------------------------------------------------------------------------
\* The template grammar
\* ------------------------------------------------------------------------
TagNames == {"indiv", "corp", "a1", "a2", "a3", "a4", "u1", "u2", "u3", "u4"}

StartTagToken(t) == "[" \o t \o "]"
EndTagToken(t) == "[/" \o t \o "]"

\* str.strip(): drop the whitespace at both ends.
RECURSIVE LStrip(_)
LStrip(s) == IF s # <<>> /\ Head(s) = WS THEN LStrip(Tail(s)) ELSE s

RECURSIVE RStrip(_)
RStrip(s) == IF s # <<>> /\ s[Len(s)] = WS THEN RStrip(SubSeq(s, 1, Len(s) - 1)) ELSE s

Strip(s) == RStrip(LStrip(s))

\* `sub in s` for a one-token needle.
Contains(s, tok) == \E k \in 1..Len(s) : s[k] = tok

\* s.startswith(tok) for a one-token prefix.
StartsWith(s, tok) == s # <<>> /\ Head(s) = tok

\* A variant without the `$` anchor: a tag at the start of the line matches.
match_start_tag_unanchored(line) ==
    IF Len(line) >= 1 /\ \E t \in TagNames : line[1] = StartTagToken(t)
    THEN CHOOSE t \in TagNames : line[1] = StartTagToken(t)
    ELSE None

\* re.match(r'^\[(indiv|corp|a[1-4]|u[1-4])\]$', line): the tag name, or None.
match_start_tag(line) ==
    IF Len(line) = 1 /\ \E t \in TagNames : line[1] = StartTagToken(t)
    THEN CHOOSE t \in TagNames : line[1] = StartTagToken(t)
    ELSE None

\* re.match(r'^\[/(indiv|corp|a[1-4]|u[1-4])\]$', line): the tag name, or None.
match_end_tag(line) ==
    IF Len(line) = 1 /\ \E t \in TagNames : line[1] = EndTagToken(t)
    THEN CHOOSE t \in TagNames : line[1] = EndTagToken(t)
    ELSE None

determine_list_type(line) ==
    LET l == Strip(line) IN
    IF StartsWith(l, "<a>") THEN "letter"
    ELSE IF StartsWith(l, "<i>") THEN "roman"
    ELSE IF StartsWith(l, "1.") THEN "numbered"
    ELSE None

Element(type, content_lines, block_tag, list_type) ==
    [type |-> type, content_lines |-> content_lines, block_tag |-> block_tag, list_type |-> list_type]

\* flush_block appends to logical_elements; here it returns the new list.
flush_block(elements, block_tag, lines, list_type) ==
    IF lines = <<>> THEN elements
    ELSE LET content == Strip(lines[1]) IN
         IF content = <<>>
         THEN Append(elements, Element("blank_line", <<>>, block_tag, None))
         ELSE IF Contains(content, "<ins>")
         THEN Append(elements, Element("heading", lines, block_tag, None))
         ELSE IF Contains(content, "[FEE_TABLE_PLACEHOLDER]")
         THEN Append(elements, Element("fee_table", lines, block_tag, None))
         ELSE Append(elements, Element(IF list_type # None THEN list_type ELSE "general_paragraph",
                                       lines, block_tag, list_type))

\* The state of the scanning loop of preprocess_precedent.
ParserState(elements, tag, lines, list_type) ==
    [logical_elements |-> elements, current_block_tag |-> tag,
     block_lines |-> lines, current_list_type |-> list_type]

ParserInit == ParserState(<<>>, None, <<>>, None)

\* The branch `if match_start_tag:` for the tag name t.
on_start_tag(st, t) ==
    LET flush == st.block_lines # <<>> /\ st.current_block_tag = None IN
    ParserState(
        IF flush THEN flush_block(st.logical_elements, None, st.block_lines, st.current_list_type)
                 ELSE st.logical_elements,
        t,
        IF flush THEN <<>> ELSE st.block_lines,
        st.current_list_type)

\* A variant that empties the buffer on every close tag, flushed or not.
on_end_tag_clearing(st, t) ==
    LET flush == st.block_lines # <<>> /\ st.current_block_tag = t IN
    ParserState(
        IF flush THEN flush_block(st.logical_elements, st.current_block_tag, st.block_lines,
                                  st.current_list_type)
                 ELSE st.logical_elements,
        None,
        <<>>,
        None)

\* A variant that leaves the active list type as it is on a close tag.
on_end_tag_keeps_list_type(st, t) ==
    LET flush == st.block_lines # <<>> /\ st.current_block_tag = t IN
    ParserState(
        IF flush THEN flush_block(st.logical_elements, st.current_block_tag, st.block_lines,
                                  st.current_list_type)
                 ELSE st.logical_elements,
        None,
        IF flush THEN <<>> ELSE st.block_lines,
        st.current_list_type)

\* The branch `elif match_end_tag:` for the tag name t.
on_end_tag(st, t) ==
    LET flush == st.block_lines # <<>> /\ st.current_block_tag = t IN
    ParserState(
        IF flush THEN flush_block(st.logical_elements, st.current_block_tag, st.block_lines,
                                  st.current_list_type)
                 ELSE st.logical_elements,
        None,
        IF flush THEN <<>> ELSE st.block_lines,
        None)

\* A variant that switches the list type without flushing the buffer.
on_content_line_no_flush(st, raw) ==
    LET new_list_type == determine_list_type(Strip(raw))
        switch == new_list_type # None /\ new_list_type # st.current_list_type
    IN  ParserState(
            st.logical_elements,
            st.current_block_tag,
            Append(st.block_lines, raw),
            IF switch THEN new_list_type ELSE st.current_list_type)

\* The branch `if line:` for the raw line lines[i].
on_content_line(st, raw) ==
    LET new_list_type == determine_list_type(Strip(raw))
        switch == new_list_type # None /\ new_list_type # st.current_list_type
        flush == switch /\ st.block_lines # <<>>
    IN  ParserState(
            IF flush THEN flush_block(st.logical_elements, st.current_block_tag, st.block_lines,
                                      st.current_list_type)
                     ELSE st.logical_elements,
            st.current_block_tag,
            Append(IF flush THEN <<>> ELSE st.block_lines, raw),
            IF switch THEN new_list_type ELSE st.current_list_type)

\* A variant that leaves the blank_line element untagged.
on_blank_line_untagged(st) ==
    ParserState(
        Append(IF st.block_lines # <<>>
               THEN flush_block(st.logical_elements, st.current_block_tag, st.block_lines,
                                st.current_list_type)
               ELSE st.logical_elements,
               Element("blank_line", <<>>, None, None)),
        st.current_block_tag,
        <<>>,
        st.current_list_type)

\* The branch `else:` of `if line:`, a blank line.
on_blank_line(st) ==
    ParserState(
        Append(IF st.block_lines # <<>>
               THEN flush_block(st.logical_elements, st.current_block_tag, st.block_lines,
                                st.current_list_type)
               ELSE st.logical_elements,
               Element("blank_line", <<>>, st.current_block_tag, None)),
        st.current_block_tag,
        <<>>,
        st.current_list_type)

\* The flush after the loop.
on_end_of_input(st) ==
    ParserState(
        IF st.block_lines # <<>>
        THEN flush_block(st.logical_elements, st.current_block_tag, st.block_lines,
                         st.current_list_type)
        ELSE st.logical_elements,
        st.current_block_tag, st.block_lines, st.current_list_type)

\* One iteration of `while i < len(lines):`.
parse_line(st, raw) ==
    LET line == Strip(raw) IN
    IF match_start_tag(line) # None THEN on_start_tag(st, match_start_tag(line))
    ELSE IF match_end_tag(line) # None THEN on_end_tag(st, match_end_tag(line))
    ELSE IF line # <<>> THEN on_content_line(st, raw)
    ELSE on_blank_line(st)

RECURSIVE parse_lines(_, _)
parse_lines(st, lines) ==
    IF lines = <<>> THEN st ELSE parse_lines(parse_line(st, Head(lines)), Tail(lines))

preprocess_precedent(content) == on_end_of_input(parse_lines(ParserInit, content)).logical_elements

\* ------------------------------------------------------------------------
\* Placeholder resolver
\* ------------------------------------------------------------------------
\* A dict is the sequence of its (key, value) pairs in insertion order.
DictKeys(d) == {d[k][1] : k \in 1..Len(d)}

DictGet(d, key) == d[CHOOSE k \in 1..Len(d) : d[k][1] = key][2]

\* d[key] = value: an existing key keeps its position.
DictSet(d, key, value) ==
    IF key \in DictKeys(d)
    THEN [k \in 1..Len(d) |-> IF d[k][1] = key THEN <<key, value>> ELSE d[k]]
    ELSE Append(d, <<key, value>>)

RECURSIVE DictUpdate(_, _)
DictUpdate(d, other) ==
    IF other = <<>> THEN d
    ELSE DictUpdate(DictSet(d, Head(other)[1], Head(other)[2]), Tail(other))

\* app_inputs.get(key, default)
Get(inputs, key, default) == IF key \in DOMAIN inputs THEN inputs[key] ELSE default

\* str(v): every value that reaches it is a str already (sanitize_input,
\* strftime and the literals of load_firm_details return str).
Str(v) == v

load_firm_details ==
    << <<"name", <<"Ramsdens Solicitors LLP">> >>,
       <<"short_name", <<"Ramsdens">> >>,
       <<"person_responsible_name", <<"Paul Pinder">> >>,
       <<"person_responsible_title", <<"Senior Associate">> >>,
       <<"supervisor_name", <<"Nick Armitage">> >>,
       <<"supervisor_title", <<"Partner">> >>,
       <<"person_responsible_phone", <<"01484 821558">> >>,
       <<"person_responsible_mobile", <<"07923 250815">> >>,
       <<"person_responsible_email", <<"paul.pinder@ramsdens.co.uk">> >>,
       <<"assistant_name", <<"Reece Collier">> >>,
       <<"supervisor_contact_for_complaints", <<"Nick Armitage on 01484 507121">> >>,
       <<"bank_name", <<"Barclays Bank PLC">> >>,
       <<"bank_address", <<"17 Market Place, Huddersfield">> >>,
       <<"account_name", <<"Ramsdens Solicitors LLP Client Account">> >>,
       <<"sort_code", <<"20-43-12">> >>,
       <<"account_number", <<"03909026">> >>,
       <<"marketing_email", <<"dataprotection@ramsdens.co.uk">> >>,
       <<"marketing_address",
         <<"Ramsdens Solicitors LLP, Oakley House, 1 Hungerford Road, Edgerton, Huddersfield, HD3 3AL">> >> >>

\* A variant in which the per-request values are applied last.
get_placeholder_map_request_wins(inputs, firm_details) ==
    DictUpdate(
        [k \in 1..Len(firm_details) |-> <<firm_details[k][1], Str(firm_details[k][2])>>],
        << <<"qu1_dispute_nature", Get(inputs, "qu1_dispute_nature", <<>>)>>,
           <<"qu2_initial_steps", Get(inputs, "qu2_initial_steps", <<>>)>>,
           <<"qu3_timescales", Get(inputs, "qu3_timescales", <<>>)>>,
           <<"qu4_initial_costs_with_vat", Get(inputs, "qu4_initial_costs_with_vat", <<"XX,XXX">>)>>,
           <<"our_ref", Str(Get(inputs, "our_ref", <<>>))>>,
           <<"your_ref", Str(Get(inputs, "your_ref", <<>>))>>,
           <<"letter_date", Str(Get(inputs, "letter_date", <<>>))>>,
           <<"client_name_input", Str(Get(inputs, "client_name_input", <<>>))>>,
           <<"client_salutation", Str(Get(inputs, "client_salutation", <<>>))>>,
           <<"client_address_line1", Str(Get(inputs, "client_address_line1", <<>>))>>,
           <<"client_address_line2_conditional",
             Str(Get(inputs, "client_address_line2_conditional", <<>>))>>,
           <<"client_postcode", Str(Get(inputs, "client_postcode", <<>>))>>,
           <<"matter_number", Str(Get(inputs, "our_ref", <<>>))>>,
           <<"name", Str(Get(inputs, "name", <<>>))>> >>)

get_placeholder_map(inputs, firm_details) ==
    LET placeholders ==
            << <<"qu1_dispute_nature", Get(inputs, "qu1_dispute_nature", <<>>)>>,
               <<"qu2_initial_steps", Get(inputs, "qu2_initial_steps", <<>>)>>,
               <<"qu3_timescales", Get(inputs, "qu3_timescales", <<>>)>>,
               <<"qu4_initial_costs_with_vat", Get(inputs, "qu4_initial_costs_with_vat", <<"XX,XXX">>)>>,
               <<"our_ref", Str(Get(inputs, "our_ref", <<>>))>>,
               <<"your_ref", Str(Get(inputs, "your_ref", <<>>))>>,
               <<"letter_date", Str(Get(inputs, "letter_date", <<>>))>>,
               <<"client_name_input", Str(Get(inputs, "client_name_input", <<>>))>>,
               <<"client_salutation", Str(Get(inputs, "client_salutation", <<>>))>>,
               <<"client_address_line1", Str(Get(inputs, "client_address_line1", <<>>))>>,
               <<"client_address_line2_conditional",
                 Str(Get(inputs, "client_address_line2_conditional", <<>>))>>,
               <<"client_postcode", Str(Get(inputs, "client_postcode", <<>>))>>,
               <<"matter_number", Str(Get(inputs, "our_ref", <<>>))>>,
               <<"name", Str(Get(inputs, "name", <<>>))>> >>
        firm_placeholders ==
            [k \in 1..Len(firm_details) |-> <<firm_details[k][1], Str(firm_details[k][2])>>]
    IN  DictUpdate(placeholders, firm_placeholders)

\* ------------------------------------------------------------------------
\* Markup renderer
\* ------------------------------------------------------------------------
NEWLINE == "\n"
Markers == {"<bd>", "</bd>", "<ins>", "</ins>"}

\* f"{{{placeholder}}}"
PlaceholderPattern(placeholder) == "{" \o placeholder \o "}"

\* str.replace(old, new) for a one-token `old`: one left-to-right pass.
RECURSIVE Replace(_, _, _)
Replace(s, old, new) ==
    IF s = <<>> THEN <<>>
    ELSE (IF Head(s) = old THEN new ELSE <<Head(s)>>) \o Replace(Tail(s), old, new)

\* The loop `for placeholder, value in placeholder_map.items():`.
RECURSIVE substitute_placeholders(_, _)
substitute_placeholders(text, map) ==
    IF map = <<>> THEN text
    ELSE substitute_placeholders(
            Replace(text, PlaceholderPattern(Head(map)[1]), Str(Head(map)[2])),
            Tail(map))

\* re.split(r'(<bd>|</bd>|<ins>|</ins>)', text): the markers and the text
\* between them (a text part may be empty), in order.
RECURSIVE re_split(_, _)
re_split(s, part) ==
    IF s = <<>> THEN <<part>>
    ELSE IF Head(s) \in Markers THEN <<part, <<Head(s)>> >> \o re_split(Tail(s), <<>>)
    ELSE re_split(Tail(s), Append(part, Head(s)))

\* part.split('\n')
RECURSIVE split_newline(_, _)
split_newline(s, piece) ==
    IF s = <<>> THEN <<piece>>
    ELSE IF Head(s) = NEWLINE THEN <<piece>> \o split_newline(Tail(s), <<>>)
    ELSE split_newline(Tail(s), Append(piece, Head(s)))

Run(text, bold, underline) == [kind |-> "text", text |-> text, bold |-> bold, underline |-> underline]
Break == [kind |-> "break", text |-> <<>>, bold |-> FALSE, underline |-> FALSE]

\* The runs added for one text part: paragraph.add_run().add_break() before
\* every piece but the first, then the piece with the current toggles.
RECURSIVE part_runs(_, _, _, _)
part_runs(pieces, first, is_bold, is_underline) ==
    IF pieces = <<>> THEN <<>>
    ELSE (IF first THEN <<>> ELSE <<Break>>)
         \o <<Run(Head(pieces), is_bold, is_underline)>>
         \o part_runs(Tail(pieces), FALSE, is_bold, is_underline)

\* A variant in which `<bd>` sets the underline toggle instead of the bold one.
RECURSIVE emit_parts_bd_underlines(_, _, _)
emit_parts_bd_underlines(parts, is_bold, is_underline) ==
    IF parts = <<>> THEN <<>>
    ELSE LET part == Head(parts) IN
         IF part = <<>> THEN emit_parts_bd_underlines(Tail(parts), is_bold, is_underline)
         ELSE IF part = <<"<bd>">> THEN emit_parts_bd_underlines(Tail(parts), is_bold, TRUE)
         ELSE IF part = <<"</bd>">> THEN emit_parts_bd_underlines(Tail(parts), FALSE, is_underline)
         ELSE IF part = <<"<ins>">> THEN emit_parts_bd_underlines(Tail(parts), is_bold, TRUE)
         ELSE IF part = <<"</ins>">> THEN emit_parts_bd_underlines(Tail(parts), is_bold, FALSE)
         ELSE part_runs(split_newline(part, <<>>), TRUE, is_bold, is_underline)
              \o emit_parts_bd_underlines(Tail(parts), is_bold, is_underline)

\* The loop `for part in parts:`.
RECURSIVE emit_parts(_, _, _)
emit_parts(parts, is_bold, is_underline) ==
    IF parts = <<>> THEN <<>>
    ELSE LET part == Head(parts) IN
         IF part = <<>> THEN emit_parts(Tail(parts), is_bold, is_underline)
         ELSE IF part = <<"<bd>">> THEN emit_parts(Tail(parts), TRUE, is_underline)
         ELSE IF part = <<"</bd>">> THEN emit_parts(Tail(parts), FALSE, is_underline)
         ELSE IF part = <<"<ins>">> THEN emit_parts(Tail(parts), is_bold, TRUE)
         ELSE IF part = <<"</ins>">> THEN emit_parts(Tail(parts), is_bold, FALSE)
         ELSE part_runs(split_newline(part, <<>>), TRUE, is_bold, is_underline)
              \o emit_parts(Tail(parts), is_bold, is_underline)

\* A variant that keeps the toggles between calls: a call starts with the
\* toggles of the last run added by the call before it.
add_formatted_runs_carrying(line, map) ==
    LET is_bold == runs # <<>> /\ runs[Len(runs)].bold
        is_underline == runs # <<>> /\ runs[Len(runs)].underline
    IN  emit_parts(re_split(substitute_placeholders(line, map), <<>>), is_bold, is_underline)

\* The runs add_formatted_runs adds to the paragraph.
add_formatted_runs(line, map) ==
    emit_parts(re_split(substitute_placeholders(line, map), <<>>), FALSE, FALSE)

\* ------------------------------------------------------------------------
\* Document assembler
\* ------------------------------------------------------------------------
\* Lengths in hundredths of a centimetre.
INDENT_FOR_IND_TAG_CM == 125
SUB_LIST_TEXT_START_CM == 100
SUB_ROMAN_TEXT_START_CM == 150

abstract_num_id == 10
num_instance_id == 1

\* A variant that accepts a tag when either half of its pair matches.
should_render_track_block_either(tag, claim_assigned, selected_track) ==
    LET tag_map == [a1 |-> <<TRUE, "Small Claims Track">>, a2 |-> <<TRUE, "Fast Track">>,
                    a3 |-> <<TRUE, "Intermediate Track">>, a4 |-> <<TRUE, "Multi Track">>,
                    u1 |-> <<FALSE, "Small Claims Track">>, u2 |-> <<FALSE, "Fast Track">>,
                    u3 |-> <<FALSE, "Intermediate Track">>, u4 |-> <<FALSE, "Multi Track">>]
    IN  IF tag \notin DOMAIN tag_map THEN FALSE
        ELSE claim_assigned = tag_map[tag][1] \/ selected_track = tag_map[tag][2]

should_render_track_block(tag, claim_assigned, selected_track) ==
    LET tag_map == [a1 |-> <<TRUE, "Small Claims Track">>, a2 |-> <<TRUE, "Fast Track">>,
                    a3 |-> <<TRUE, "Intermediate Track">>, a4 |-> <<TRUE, "Multi Track">>,
                    u1 |-> <<FALSE, "Small Claims Track">>, u2 |-> <<FALSE, "Fast Track">>,
                    u3 |-> <<FALSE, "Intermediate Track">>, u4 |-> <<FALSE, "Multi Track">>]
    IN  IF tag \notin DOMAIN tag_map THEN FALSE
        ELSE claim_assigned = tag_map[tag][1] /\ selected_track = tag_map[tag][2]

\* A variant without the branch for `corp`, which then falls to the track tags.
render_this_element_no_corp(element, inputs) ==
    LET tag == element.block_tag IN
    IF tag = None THEN TRUE
    ELSE IF tag = "indiv" THEN inputs["client_type"] = "Individual"
    ELSE should_render_track_block(tag, inputs["claim_assigned"], inputs["selected_track"])

\* Lines 261-269: whether the element is rendered.
render_this_element(element, inputs) ==
    LET tag == element.block_tag IN
    IF tag = None THEN TRUE
    ELSE IF tag = "indiv" THEN inputs["client_type"] = "Individual"
    ELSE IF tag = "corp" THEN inputs["client_type"] = "Corporate"
    ELSE should_render_track_block(tag, inputs["claim_assigned"], inputs["selected_track"])

create_level(ilvl, numFmt, lvlText, left_indent_cm, hanging_cm, start_val) ==
    [ilvl |-> ilvl, numFmt |-> numFmt, lvlText |-> lvlText, left |-> left_indent_cm,
     hanging |-> hanging_cm, start |-> start_val]

\* Lines 218-257: what is appended to the numbering part of a new document.
numbering_definition ==
    << [kind |-> "abstractNum", abstractNumId |-> abstract_num_id,
        levels |-> << create_level(0, "decimal", "%1.", 0, 100, 1),
                      create_level(1, "lowerLetter", "(%2)", SUB_LIST_TEXT_START_CM, 100, 1),
                      create_level(2, "lowerRoman", "(%3)", SUB_ROMAN_TEXT_START_CM, 100, 1) >>],
       [kind |-> "num", numId |-> num_instance_id, abstractNumId |-> abstract_num_id] >>

\* numPr is None or (ilvl, numId); left_indent, alignment, space_before and
\* space_after are None when the code leaves them unset.
Paragraph(paragraph_runs, numPr, left_indent, alignment, space_before, space_after) ==
    [kind |-> "paragraph", runs |-> paragraph_runs, numPr |-> numPr, left_indent |-> left_indent,
     alignment |-> alignment, space_before |-> space_before, space_after |-> space_after]

Table(rows) == [kind |-> "table", style |-> "Table Grid", rows |-> rows]

\* A variant that attaches every list item to level 0.
add_list_item_level_zero(level, text, map) ==
    LET cleaned_content == Strip(Replace(Replace(text, "<a>", <<>>), "<i>", <<>>)) IN
    Paragraph(add_formatted_runs(cleaned_content, map), <<0, num_instance_id>>, None,
              "JUSTIFY", None, 6)

add_list_item(level, text, map) ==
    LET cleaned_content == Strip(Replace(Replace(text, "<a>", <<>>), "<i>", <<>>)) IN
    Paragraph(add_formatted_runs(cleaned_content, map), <<level, num_instance_id>>, None,
              "JUSTIFY", None, 6)

\* A variant with the default rate written into the Grade C row.
fee_data_fixed_rate(hourly_rate) ==
    << <<"Grade A", "£450 (Partners, Solicitors over 8 years)">>,
       <<"Grade B", "£350 (Solicitors/Legal Executives over 4 years)">>,
       <<"Grade C", "£295 (Solicitors/Legal Executives under 4 years)">>,
       <<"Grade D", "£250 (Trainees, Paralegals)">>,
       <<"Grade E", "£150 (Support Staff)">> >>

\* Lines 293-299 for one hourly rate.
fee_data(hourly_rate) ==
    << <<"Grade A", "£450 (Partners, Solicitors over 8 years)">>,
       <<"Grade B", "£350 (Solicitors/Legal Executives over 4 years)">>,
       <<"Grade C", "£" \o ToString(hourly_rate) \o " (Solicitors/Legal Executives under 4 years)">>,
       <<"Grade D", "£250 (Trainees, Paralegals)">>,
       <<"Grade E", "£150 (Support Staff)">> >>

\* A variant in which a blank_line element adds an empty paragraph.
render_element_blank_paragraph(element, inputs, map) ==
    LET content == IF element.content_lines # <<>> THEN element.content_lines[1] ELSE <<>> IN
    IF element.type = "blank_line" THEN << Paragraph(<<>>, None, None, None, None, None) >>
    ELSE IF element.type = "fee_table"
    THEN << Table(fee_data(inputs["hourly_rate"])), Paragraph(<<>>, None, None, None, None, 12) >>
    ELSE IF element.type = "heading"
    THEN << Paragraph(add_formatted_runs(content, map), None, None, None, 12, 6) >>
    ELSE IF element.type = "numbered" THEN << add_list_item(0, content, map) >>
    ELSE IF element.type = "letter" THEN << add_list_item(1, content, map) >>
    ELSE IF element.type = "roman" THEN << add_list_item(2, content, map) >>
    ELSE IF element.type = "general_paragraph"
    THEN << Paragraph(add_formatted_runs(Strip(Replace(content, "[ind]", <<>>)), map), None,
                      IF Contains(content, "[ind]") THEN INDENT_FOR_IND_TAG_CM ELSE None,
                      "JUSTIFY", None, 12) >>
    ELSE <<>>

\* Lines 273-322: what one rendered element appends to the document.
render_element(element, inputs, map) ==
    LET content == IF element.content_lines # <<>> THEN element.content_lines[1] ELSE <<>> IN
    IF element.type = "blank_line" THEN <<>>
    ELSE IF element.type = "fee_table"
    THEN << Table(fee_data(inputs["hourly_rate"])), Paragraph(<<>>, None, None, None, None, 12) >>
    ELSE IF element.type = "heading"
    THEN << Paragraph(add_formatted_runs(content, map), None, None, None, 12, 6) >>
    ELSE IF element.type = "numbered" THEN << add_list_item(0, content, map) >>
    ELSE IF element.type = "letter" THEN << add_list_item(1, content, map) >>
    ELSE IF element.type = "roman" THEN << add_list_item(2, content, map) >>
    ELSE IF element.type = "general_paragraph"
    THEN << Paragraph(add_formatted_runs(Strip(Replace(content, "[ind]", <<>>)), map), None,
                      IF Contains(content, "[ind]") THEN INDENT_FOR_IND_TAG_CM ELSE None,
                      "JUSTIFY", None, 12) >>
    ELSE <<>>

\* A variant of the handler that swallows the error and returns the document.
except_returns_document(built) == [raised |-> FALSE, returned |-> built]

\* Lines 324-326: the handler of process_precedent_text logs and re-raises,
\* so the call returns nothing.
except_reraise(built) == [raised |-> TRUE, returned |-> None]

\* generate_initial_advice_doc: a title paragraph and a 3 x 2 table.
generate_initial_advice_doc(inputs, map) ==
    << Paragraph(add_formatted_runs(<<"Initial Advice Summary - Matter Number: ", "{matter_number}">>,
                                    map),
                 None, None, None, None, 12),
       Table(<< <<"Date of Advice", inputs["initial_advice_date"]>>,
                <<"Method of Advice", inputs["initial_advice_method"]>>,
                <<"Advice Given", inputs["initial_advice_content"]>> >>) >>

\* ------------------------------------------------------------------------
\* The script: load, form, submitted handler
\* ------------------------------------------------------------------------
\* html.escape on one token: the characters & < > " ' are replaced.
html_escape(tok) ==
    CASE tok = "<bd>" -> "&lt;bd&gt;"
      [] tok = "</bd>" -> "&lt;/bd&gt;"
      [] tok = "<ins>" -> "&lt;ins&gt;"
      [] tok = "</ins>" -> "&lt;/ins&gt;"
      [] tok = "<a>" -> "&lt;a&gt;"
      [] tok = "<i>" -> "&lt;i&gt;"
      [] OTHER -> tok

sanitize_input(text) == [k \in 1..Len(text) |-> html_escape(text[k])]

\* A variant of the test that never finds the template missing.
template_always_present(content) == FALSE

\* `not precedent_content`: the text is empty.
not_precedent_content(content) == content = <<>>

\* f"{n:,}" for a natural number.
RECURSIVE Grouped(_)
Grouped(n) ==
    IF n < 1000 THEN ToString(n)
    ELSE Grouped(n \div 1000) \o ","
         \o (IF n % 1000 < 10 THEN "00" ELSE IF n % 1000 < 100 THEN "0" ELSE "") \o ToString(n % 1000)

\* f"{x:,.2f}" for an amount given in pence.
Money(pence) ==
    Grouped(pence \div 100) \o "." \o (IF pence % 100 < 10 THEN "0" ELSE "") \o ToString(pence % 100)

\* math.ceil(x * 1.2 / 50) * 50 for an amount given in pence.
with_vat_rounded(pence) == (((pence * 12) \div 10 + 4999) \div 5000) * 5000

\* Lines 383-392: the costs sentence, one chunk of text.
costs_text(form) ==
    IF form.cost_type_is_range
    THEN <<"from £" \o Money(form.lower_cost) \o " to £" \o Money(form.upper_cost)
           \o " plus VAT which means between £" \o Money(with_vat_rounded(form.lower_cost))
           \o " to £" \o Money(with_vat_rounded(form.upper_cost))>>
    ELSE <<"a fixed fee of £" \o Money(form.fixed_cost) \o " plus VAT that being £"
           \o Money(with_vat_rounded(form.fixed_cost))>>

\* Lines 393-415.
build_app_inputs(form) ==
    [qu1_dispute_nature |-> sanitize_input(form.qu1_dispute_nature),
     qu2_initial_steps |-> sanitize_input(form.qu2_initial_steps),
     qu3_timescales |-> sanitize_input(form.qu3_timescales),
     qu4_initial_costs_with_vat |-> costs_text(form),
     client_type |-> form.client_type,
     claim_assigned |-> (form.claim_assigned_input = "Yes"),
     selected_track |-> form.selected_track,
     our_ref |-> sanitize_input(form.our_ref),
     your_ref |-> sanitize_input(form.your_ref),
     letter_date |-> form.letter_date,
     client_name_input |-> sanitize_input(form.client_name_input),
     client_salutation |-> sanitize_input(form.client_salutation_name),
     client_address_line1 |-> sanitize_input(form.client_address_line1),
     client_address_line2_conditional |->
        IF form.client_address_line2 # <<>> THEN sanitize_input(form.client_address_line2)
        ELSE <<>>,
     client_postcode |-> sanitize_input(form.client_postcode),
     name |-> sanitize_input(DictGet(load_firm_details, "person_responsible_name")),
     initial_advice_content |-> form.initial_advice_content,
     initial_advice_method |-> form.initial_advice_method,
     initial_advice_date |-> form.initial_advice_date,
     hourly_rate |-> form.hourly_rate]

\* ------------------------------------------------------------------------
\* SpecParse: preprocess_precedent, one line per step
\* ------------------------------------------------------------------------
ParseLinePool ==
    { <<>>,                                                     \* blank
      <<WS>>,                                                   \* whitespace only
      <<"[a2]">>, <<"[indiv]">>, <<"[/a2]">>, <<"[/indiv]">>,   \* tag lines
      <<"[a5]">>, <<"[/xyz]">>,                                 \* not in the tag set
      <<"[a2]", " and text">>,                                  \* a tag followed by text
      <<"Dear ", "{client_salutation}">>,
      <<"[ind]", "Indented text">>,
      <<WS, "1.", " First item">>,
      <<"1.", " First item ", "<ins>", "Heading", "</ins>">>,
      <<"<a>", " sub item">>,
      <<"<i>", " sub sub item">>,
      <<"<ins>", "Heading", "</ins>">>,
      <<"[FEE_TABLE_PLACEHOLDER]">> }

RECURSIVE SeqsUpTo(_, _)
SeqsUpTo(S, n) ==
    IF n = 0 THEN {<<>>}
    ELSE LET shorter == SeqsUpTo(S, n - 1) IN
         shorter \cup {Append(s, x) : s \in {t \in shorter : Len(t) = n - 1}, x \in S}

CurrentState == ParserState(logical_elements, current_block_tag, block_lines, current_list_type)

SetParser(st) ==
    /\ logical_elements' = st.logical_elements
    /\ current_block_tag' = st.current_block_tag
    /\ block_lines' = st.block_lines
    /\ current_list_type' = st.current_list_type

InitParse ==
    /\ pc = "scan"
    /\ precedent_content \in SeqsUpTo(ParseLinePool, MaxLines)
    /\ i = 1
    /\ logical_elements = <<>>
    /\ current_block_tag = None
    /\ block_lines = <<>>
    /\ current_list_type = None
    /\ app_inputs = None
    /\ placeholder_map = None
    /\ text_line = None
    /\ processed_text = None
    /\ runs = None
    /\ doc = None
    /\ numbering = None
    /\ element_index = None
    /\ rendered = None
    /\ result = None
    /\ failed_at = None
    /\ zip_io = None
    /\ messages = <<>>

AtLine == pc = "scan" /\ i <= Len(precedent_content)

ReadStartTag ==
    /\ AtLine
    /\ match_start_tag(Strip(precedent_content[i])) # None
    /\ SetParser(on_start_tag(CurrentState, match_start_tag(Strip(precedent_content[i]))))
    /\ i' = i + 1
    /\ UNCHANGED <<pc, precedent_content, app_inputs, placeholder_map, rendererVars, assemblerVars,
                   sessionVars>>

ReadEndTag ==
    /\ AtLine
    /\ match_start_tag(Strip(precedent_content[i])) = None
    /\ match_end_tag(Strip(precedent_content[i])) # None
    /\ SetParser(on_end_tag(CurrentState, match_end_tag(Strip(precedent_content[i]))))
    /\ i' = i + 1
    /\ UNCHANGED <<pc, precedent_content, app_inputs, placeholder_map, rendererVars, assemblerVars,
                   sessionVars>>

ReadContentLine ==
    /\ AtLine
    /\ match_start_tag(Strip(precedent_content[i])) = None
    /\ match_end_tag(Strip(precedent_content[i])) = None
    /\ Strip(precedent_content[i]) # <<>>
    /\ SetParser(on_content_line(CurrentState, precedent_content[i]))
    /\ i' = i + 1
    /\ UNCHANGED <<pc, precedent_content, app_inputs, placeholder_map, rendererVars, assemblerVars,
                   sessionVars>>

ReadBlankLine ==
    /\ AtLine
    /\ Strip(precedent_content[i]) = <<>>
    /\ SetParser(on_blank_line(CurrentState))
    /\ i' = i + 1
    /\ UNCHANGED <<pc, precedent_content, app_inputs, placeholder_map, rendererVars, assemblerVars,
                   sessionVars>>

EndOfInput ==
    /\ pc = "scan"
    /\ i > Len(precedent_content)
    /\ SetParser(on_end_of_input(CurrentState))
    /\ pc' = "parsed"
    /\ UNCHANGED <<i, precedent_content, app_inputs, placeholder_map, rendererVars, assemblerVars,
                   sessionVars>>

NextParse == ReadStartTag \/ ReadEndTag \/ ReadContentLine \/ ReadBlankLine \/ EndOfInput

SpecParse == InitParse /\ [][NextParse]_vars

\* ------------------------------------------------------------------------
\* SpecMap: get_placeholder_map on answers with keys present or absent
\* ------------------------------------------------------------------------
VariedKeys ==
    {"name", "our_ref", "matter_number", "qu1_dispute_nature", "qu4_initial_costs_with_vat",
     "client_postcode"}

AnswerPool == {<<"PDP/10011/001">>, <<"Paul Pinder">>}

InitMap ==
    /\ pc = "resolve"
    /\ app_inputs \in UNION {[D -> AnswerPool] : D \in SUBSET VariedKeys}
    /\ placeholder_map = None
    /\ precedent_content = None
    /\ i = None
    /\ logical_elements = None
    /\ current_block_tag = None
    /\ block_lines = None
    /\ current_list_type = None
    /\ text_line = None
    /\ processed_text = None
    /\ runs = None
    /\ doc = None
    /\ numbering = None
    /\ element_index = None
    /\ rendered = None
    /\ result = None
    /\ failed_at = None
    /\ zip_io = None
    /\ messages = <<>>

GetPlaceholderMap ==
    /\ pc = "resolve"
    /\ placeholder_map' = get_placeholder_map(app_inputs, load_firm_details)
    /\ pc' = "resolved"
    /\ UNCHANGED <<precedent_content, parserVars, app_inputs, rendererVars, assemblerVars, sessionVars>>

NextMap == GetPlaceholderMap

SpecMap == InitMap /\ [][NextMap]_vars

\* ------------------------------------------------------------------------
\* SpecRuns: add_formatted_runs on one line
\* ------------------------------------------------------------------------
RunTokenPool ==
    {"<bd>", "</bd>", "<ins>", "</ins>", "Total: ",
     "{qu4_initial_costs_with_vat}", "{qu1_dispute_nature}", "{our_ref}"}

RunAnswers ==
    {[qu1_dispute_nature |-> q, our_ref |-> r, qu4_initial_costs_with_vat |-> <<"£500 plus VAT">>] :
        q \in {<<"a contractual matter">>, <<"{our_ref}">>, <<"first", NEWLINE, "second">>},
        r \in {<<"PDP/10011/001">>, <<>>}}

InitRuns ==
    /\ pc = "substitute"
    /\ app_inputs \in RunAnswers
    /\ placeholder_map = get_placeholder_map(app_inputs, load_firm_details)
    /\ text_line \in SeqsUpTo(RunTokenPool, MaxTokens)
    /\ processed_text = text_line
    /\ runs = <<>>
    /\ precedent_content = None
    /\ i = None
    /\ logical_elements = None
    /\ current_block_tag = None
    /\ block_lines = None
    /\ current_list_type = None
    /\ doc = <<>>
    /\ numbering = None
    /\ element_index = None
    /\ rendered = None
    /\ result = None
    /\ failed_at = None
    /\ zip_io = None
    /\ messages = <<>>

\* Lines 84-89: the substitution loop.
SubstitutePlaceholders ==
    /\ pc = "substitute"
    /\ processed_text' = substitute_placeholders(text_line, placeholder_map)
    /\ pc' = "split"
    /\ UNCHANGED <<precedent_content, parserVars, app_inputs, placeholder_map, text_line, runs,
                   assemblerVars, sessionVars>>

\* Lines 90-104: the split on the markers and the runs.
AddRuns ==
    /\ pc = "split"
    /\ runs' = runs \o emit_parts(re_split(processed_text, <<>>), FALSE, FALSE)
    /\ pc' = "rendered"
    /\ UNCHANGED <<precedent_content, parserVars, app_inputs, placeholder_map, text_line,
                   processed_text, assemblerVars, sessionVars>>

\* The lines rendered into a second paragraph.
FollowingLines ==
    { <<"Total: ", "</bd>", "{our_ref}">>,
      <<"<ins>", "Total: ">> }

\* Lines 305-308 twice over: the paragraph just rendered is finished, the
\* caller adds a new paragraph and calls add_formatted_runs on its line.
RenderFollowingLine ==
    /\ pc = "rendered"
    /\ doc = <<>>
    /\ doc' = <<Paragraph(runs, None, None, None, 12, 6)>>
    /\ \E line \in FollowingLines :
           /\ text_line' = line
           /\ processed_text' = substitute_placeholders(line, placeholder_map)
           /\ runs' = add_formatted_runs(line, placeholder_map)
    /\ UNCHANGED <<pc, precedent_content, parserVars, app_inputs, placeholder_map,
                   numbering, element_index, rendered, result, sessionVars>>

NextRuns == SubstitutePlaceholders \/ AddRuns \/ RenderFollowingLine

SpecRuns == InitRuns /\ [][NextRuns]_vars

\* ------------------------------------------------------------------------
\* Spec: one run of the script
\* ------------------------------------------------------------------------
\* A template file is up to MaxBlocks blocks; a block is a group of lines,
\* bare or enclosed in the open and close lines of one tag.
ContentPool ==
    { << <<"[FEE_TABLE_PLACEHOLDER]">> >>,
      << <<"<ins>", "Costs", "</ins>">>, <<>>,
         <<"1.", " Our fees are ", "{qu4_initial_costs_with_vat}">> >>,
      << <<"Dear ", "{client_salutation}">>, <<>>, <<"[ind]", "<bd>", "{name}", "</bd>">> >>,
      << <<"1.", " Item">>, <<"<a>", " sub item">>, <<"<i>", " sub sub item">> >>,
      << <<"We enclose our terms of business.">>, <<"Please sign and return one copy.">> >>,
      << <<"Yours sincerely">>, <<"[corp]">>, <<"For and on behalf of the company">>,
         <<"[/corp]">>, <<>> >>,
      << <<"[ind]", "<ins>", "Indented heading", "</ins>">> >> }

BlockPool ==
    ContentPool \cup
    { << <<StartTagToken(t)>> >> \o c \o << <<EndTagToken(t)>> >> : t \in TagNames, c \in ContentPool }

RECURSIVE Concat(_)
Concat(seqs) == IF seqs = <<>> THEN <<>> ELSE Head(seqs) \o Concat(Tail(seqs))

TemplateFiles == {Concat(blocks) : blocks \in SeqsUpTo(BlockPool, MaxBlocks)}

\* The widgets of the form: the selections and the hourly rate vary, the
\* other fields keep the values the form offers.  Amounts are in pence; the
\* cost widgets keep their defaults, 2.5 and 3.5 hours at the hourly rate.
Forms ==
    { [our_ref |-> <<"PDP/10011/001">>, your_ref |-> <<"REF">>, letter_date |-> <<"01 November 2026">>,
       client_name_input |-> <<"Mr. John Smith">>, client_salutation_name |-> <<"Mr. Smith">>,
       client_address_line1 |-> <<"123 Example Street">>, client_address_line2 |-> <<"SomeTown">>,
       client_postcode |-> <<"EX4 MPL">>, client_type |-> ct,
       initial_advice_content |-> "Advised on merits...", initial_advice_method |-> "Phone Call",
       initial_advice_date |-> "01/11/2026",
       claim_assigned_input |-> ca, selected_track |-> tr,
       qu1_dispute_nature |-> <<"a contractual matter...">>,
       qu2_initial_steps |-> <<"review documentation...">>,
       qu3_timescales |-> <<"approx two to four weeks...">>,
       hourly_rate |-> hr, cost_type_is_range |-> TRUE,
       lower_cost |-> hr * 250, upper_cost |-> hr * 350, fixed_cost |-> None] :
        ct \in {"Individual", "Corporate"}, ca \in {"Yes", "No"},
        tr \in {"Small Claims Track", "Fast Track", "Intermediate Track", "Multi Track"},
        hr \in {295, 300} }

NotFoundMessage == "precedent.txt not found. Please ensure the template text file is in the correct directory."
LoadErrorMessage == "Error loading precedent.txt"
BuildErrorMessage == "An error occurred while building the documents"
SuccessMessage == "Documents Generated Successfully!"

Init ==
    /\ pc = "load"
    /\ precedent_content = None
    /\ i = None
    /\ logical_elements = None
    /\ current_block_tag = None
    /\ block_lines = None
    /\ current_list_type = None
    /\ app_inputs = None
    /\ placeholder_map = None
    /\ text_line = None
    /\ processed_text = None
    /\ runs = None
    /\ doc = None
    /\ numbering = None
    /\ element_index = None
    /\ rendered = None
    /\ result = None
    /\ failed_at = None
    /\ zip_io = None
    /\ messages = <<>>

\* load_precedent_text: the file is read.
LoadTemplate ==
    /\ pc = "load"
    /\ precedent_content' \in TemplateFiles
    /\ pc' = "loaded"
    /\ UNCHANGED <<parserVars, app_inputs, placeholder_map, rendererVars, assemblerVars, sessionVars>>

\* load_precedent_text: FileNotFoundError.
LoadFileNotFound ==
    /\ pc = "load"
    /\ precedent_content' = <<>>
    /\ messages' = Append(messages, NotFoundMessage)
    /\ pc' = "loaded"
    /\ UNCHANGED <<parserVars, app_inputs, placeholder_map, rendererVars, assemblerVars, failed_at,
                   zip_io>>

\* load_precedent_text: any other exception.
LoadReadError ==
    /\ pc = "load"
    /\ precedent_content' = <<>>
    /\ messages' = Append(messages, LoadErrorMessage)
    /\ pc' = "loaded"
    /\ UNCHANGED <<parserVars, app_inputs, placeholder_map, rendererVars, assemblerVars, failed_at,
                   zip_io>>

\* Lines 333-334: st.stop().
StopSession ==
    /\ pc = "loaded"
    /\ not_precedent_content(precedent_content)
    /\ pc' = "stopped"
    /\ UNCHANGED <<precedent_content, parserVars, app_inputs, placeholder_map, rendererVars,
                   assemblerVars, sessionVars>>

\* Lines 336-380 without a submission: the form is shown and the run ends.
ShowForm ==
    /\ pc = "loaded"
    /\ ~not_precedent_content(precedent_content)
    /\ pc' = "waiting"
    /\ UNCHANGED <<precedent_content, parserVars, app_inputs, placeholder_map, rendererVars,
                   assemblerVars, sessionVars>>

\* Lines 336-415 with a submission: the answers are collected.
SubmitForm ==
    /\ pc = "loaded"
    /\ ~not_precedent_content(precedent_content)
    /\ \E form \in Forms : app_inputs' = build_app_inputs(form)
    /\ pc' = "resolve"
    /\ UNCHANGED <<precedent_content, parserVars, placeholder_map, rendererVars, assemblerVars,
                   sessionVars>>

\* Lines 216-257: a new document and its numbering definition.
BeginDocument ==
    /\ pc = "resolved"
    /\ doc' = <<>>
    /\ numbering' = numbering_definition
    /\ pc' = "preprocess"
    /\ UNCHANGED <<precedent_content, parserVars, app_inputs, placeholder_map, rendererVars,
                   element_index, rendered, result, sessionVars>>

\* Line 259.
Preprocess ==
    /\ pc = "preprocess"
    /\ logical_elements' = preprocess_precedent(precedent_content)
    /\ element_index' = 1
    /\ rendered' = {}
    /\ pc' = "elements"
    /\ UNCHANGED <<precedent_content, i, current_block_tag, block_lines, current_list_type,
                   app_inputs, placeholder_map, rendererVars, doc, numbering, result, sessionVars>>

AtElement == pc = "elements" /\ element_index <= Len(logical_elements)

\* Lines 261-271: the element is not visible.
SkipElement ==
    /\ AtElement
    /\ ~render_this_element(logical_elements[element_index], app_inputs)
    /\ element_index' = element_index + 1
    /\ UNCHANGED <<pc, precedent_content, parserVars, app_inputs, placeholder_map, rendererVars,
                   doc, numbering, rendered, result, sessionVars>>

\* Lines 261-322: the element is visible.
RenderElement ==
    /\ AtElement
    /\ render_this_element(logical_elements[element_index], app_inputs)
    /\ doc' = doc \o render_element(logical_elements[element_index], app_inputs, placeholder_map)
    /\ rendered' = rendered \cup {element_index}
    /\ element_index' = element_index + 1
    /\ UNCHANGED <<pc, precedent_content, parserVars, app_inputs, placeholder_map, rendererVars,
                   numbering, result, sessionVars>>

\* Line 323.
ReturnDocument ==
    /\ pc = "elements"
    /\ element_index > Len(logical_elements)
    /\ result' = doc
    /\ pc' = "package"
    /\ UNCHANGED <<precedent_content, parserVars, app_inputs, placeholder_map, rendererVars,
                   doc, numbering, element_index, rendered, sessionVars>>

\* A step inside the try block of process_precedent_text raises: lines
\* 324-326, then the handler of the caller, lines 438-440.
AssemblyFails ==
    /\ pc \in {"resolved", "preprocess", "elements"}
    /\ failed_at' = pc
    /\ LET handled == except_reraise(doc) IN
       IF handled.raised
       THEN /\ messages' = Append(messages, BuildErrorMessage)
            /\ pc' = "assembly_failed"
            /\ UNCHANGED result
       ELSE /\ result' = handled.returned
            /\ pc' = "package"
            /\ UNCHANGED messages
    /\ UNCHANGED <<precedent_content, parserVars, app_inputs, placeholder_map, rendererVars,
                   doc, numbering, element_index, rendered, zip_io>>

\* Lines 419-436: both documents are saved and zipped, the download is offered.
PackageDocuments ==
    /\ pc = "package"
    /\ zip_io' = [Client_Care_Letter |-> result,
                  Initial_Advice_Summary |-> generate_initial_advice_doc(app_inputs, placeholder_map)]
    /\ messages' = Append(messages, SuccessMessage)
    /\ pc' = "done"
    /\ UNCHANGED <<precedent_content, parserVars, app_inputs, placeholder_map, rendererVars,
                   assemblerVars, failed_at>>

\* A step of lines 419-436 raises: the handler of lines 438-440.
PackagingFails ==
    /\ pc = "package"
    /\ messages' = Append(messages, BuildErrorMessage)
    /\ failed_at' = pc
    /\ pc' = "packaging_failed"
    /\ UNCHANGED <<precedent_content, parserVars, app_inputs, placeholder_map, rendererVars,
                   assemblerVars, zip_io>>

Next ==
    \/ LoadTemplate \/ LoadFileNotFound \/ LoadReadError
    \/ StopSession \/ ShowForm \/ SubmitForm
    \/ GetPlaceholderMap
    \/ BeginDocument \/ Preprocess \/ SkipElement \/ RenderElement \/ ReturnDocument
    \/ AssemblyFails
    \/ PackageDocuments \/ PackagingFails

Spec == Init /\ [][Next]_vars

\* ------------------------------------------------------------------------
\* Properties of preprocess_precedent
\* ------------------------------------------------------------------------
RecognisedTagLines ==
    {<<StartTagToken(t)>> : t \in TagNames} \cup {<<EndTagToken(t)>> : t \in TagNames}

IsBlank(raw) == \A k \in 1..Len(raw) : raw[k] = WS

IsContentLine(raw) == ~IsBlank(raw) /\ Strip(raw) \notin RecognisedTagLines

RECURSIVE Flatten(_)
Flatten(elements) ==
    IF elements = <<>> THEN <<>>
    ELSE (IF Head(elements).type = "blank_line" THEN <<>> ELSE Head(elements).content_lines)
         \o Flatten(Tail(elements))

\* C1: the content_lines of the returned elements, concatenated in element
\* order and ignoring blank_line elements, are exactly the template's lines
\* that are neither blank nor a recognised open/close tag line, in their
\* original order.
C1_OrderPreserved ==
    pc = "parsed" => Flatten(logical_elements) = SelectSeq(precedent_content, IsContentLine)

\* A parse in which a mismatched close tag was read with a line buffered and
\* two content lines were emitted.
C1_Witness ==
    /\ pc = "parsed"
    /\ Len(Flatten(logical_elements)) >= 2
    /\ \E k \in 2..Len(precedent_content) :
           /\ Strip(precedent_content[k]) = <<"[/indiv]">>
           /\ IsContentLine(precedent_content[k - 1])

FirstLineIsNumberedWithUnderline(e) ==
    /\ e.content_lines # <<>>
    /\ StartsWith(Strip(e.content_lines[1]), "1.")
    /\ Contains(e.content_lines[1], "<ins>")

\* C4: a flushed group whose first line begins with `1.` and also contains
\* `<ins>` is classified numbered, not heading.
C4_NumberedNotHeading ==
    pc = "parsed" =>
        \A k \in 1..Len(logical_elements) :
            FirstLineIsNumberedWithUnderline(logical_elements[k])
                => logical_elements[k].type = "numbered"

\* ------------------------------------------------------------------------
\* Properties of get_placeholder_map
\* ------------------------------------------------------------------------
FirmKeys == DictKeys(load_firm_details)

PerRequestKeys ==
    {"qu1_dispute_nature", "qu2_initial_steps", "qu3_timescales", "qu4_initial_costs_with_vat",
     "our_ref", "your_ref", "letter_date", "client_name_input", "client_salutation",
     "client_address_line1", "client_address_line2_conditional", "client_postcode",
     "matter_number", "name"}

DefaultOf(key) == IF key = "qu4_initial_costs_with_vat" THEN <<"XX,XXX">> ELSE <<>>

FirmValuesWin ==
    \A key \in FirmKeys : DictGet(placeholder_map, key) = DictGet(load_firm_details, key)

\* C7 as stated: every firm key maps to the firm value, and every other key
\* of the map keeps the per-request value of that key, defaulting to the
\* empty string when absent (`XX,XXX` for qu4_initial_costs_with_vat).
C7_AsStated ==
    pc = "resolved" =>
        /\ FirmValuesWin
        /\ \A key \in DictKeys(placeholder_map) \ FirmKeys :
               DictGet(placeholder_map, key) = Get(app_inputs, key, DefaultOf(key))

\* The answer a key of the map is read from.
SourceKey(key) == IF key = "matter_number" THEN "our_ref" ELSE key

\* C7: every firm key maps to the firm value, also on a collision with a
\* per-request key; every other key keeps the per-request value of its
\* source key (its own key, and `our_ref` for `matter_number`), defaulting
\* to the empty string when absent, `XX,XXX` for qu4_initial_costs_with_vat.
C7_FirmWinsOthersKept ==
    pc = "resolved" =>
        /\ DictKeys(placeholder_map) = PerRequestKeys \cup FirmKeys
        /\ Len(placeholder_map) = Cardinality(PerRequestKeys \cup FirmKeys)
        /\ FirmValuesWin
        /\ \A key \in PerRequestKeys \ FirmKeys :
               DictGet(placeholder_map, key) = Get(app_inputs, SourceKey(key), DefaultOf(key))

\* A resolved map for answers that carry their own `name`, different from
\* the firm's, and leave qu4_initial_costs_with_vat out.
C7_Witness ==
    /\ pc = "resolved"
    /\ "name" \in DOMAIN app_inputs
    /\ app_inputs["name"] # DictGet(load_firm_details, "name")
    /\ "our_ref" \in DOMAIN app_inputs
    /\ "qu4_initial_costs_with_vat" \notin DOMAIN app_inputs

\* ------------------------------------------------------------------------
\* Properties of add_formatted_runs
\* ------------------------------------------------------------------------
TokensOf(s) == {s[k] : k \in 1..Len(s)}

RunTexts == {runs[k].text : k \in {j \in 1..Len(runs) : runs[j].kind = "text"}}

\* C5: a `{other}` token that occurs only inside a substituted value, and
\* not in the original line, is left literally in the rendered text.
C5_NotRecursive ==
    pc = "rendered" =>
        \A key \in DictKeys(placeholder_map), other \in DictKeys(placeholder_map) :
            ( /\ PlaceholderPattern(key) \in TokensOf(text_line)
              /\ PlaceholderPattern(other) \notin TokensOf(text_line)
              /\ PlaceholderPattern(other) \in TokensOf(DictGet(placeholder_map, key)) )
            => \E text \in RunTexts : PlaceholderPattern(other) \in TokensOf(text)

\* The text with every `{name}` of the map replaced by its value, each
\* token of the original text looked at once.
RECURSIVE SimultaneousSubstitute(_, _)
SimultaneousSubstitute(text, map) ==
    IF text = <<>> THEN <<>>
    ELSE (IF \E key \in DictKeys(map) : Head(text) = PlaceholderPattern(key)
          THEN DictGet(map, CHOOSE key \in DictKeys(map) : Head(text) = PlaceholderPattern(key))
          ELSE <<Head(text)>>)
         \o SimultaneousSubstitute(Tail(text), map)

Inner(line) == SubSeq(line, 2, Len(line) - 1)

\* text_line is `<bd>T</bd>` with no marker in T.
IsBoldLine ==
    /\ Len(text_line) >= 2
    /\ text_line[1] = "<bd>"
    /\ text_line[Len(text_line)] = "</bd>"
    /\ TokensOf(Inner(text_line)) \cap Markers = {}

Plain(text) == TokensOf(text) \cap (Markers \cup {NEWLINE}) = {}

KeyIndex(map, key) == CHOOSE k \in 1..Len(map) : map[k][1] = key

\* No value substituted into the text carries the `{name}` of a later key.
NoLaterKeyInValues(text, map) ==
    \A key \in DictKeys(map), other \in DictKeys(map) :
        ( /\ PlaceholderPattern(key) \in TokensOf(text)
          /\ PlaceholderPattern(other) \in TokensOf(DictGet(map, key)) )
        => KeyIndex(map, other) <= KeyIndex(map, key)

LastMarkerIs(s, k, open, close) ==
    LET before == {j \in 1..(k - 1) : s[j] \in {open, close}} IN
    before # {} /\ s[CHOOSE j \in before : \A h \in before : h <= j] = open

\* What the markers of a text ask for: every token that is not a marker,
\* with the toggles the markers before it set; a newline is a break.
ExpectedTokens(s) ==
    LET kept == SelectSeq([k \in 1..Len(s) |-> k], LAMBDA k : s[k] \notin Markers) IN
    [n \in 1..Len(kept) |->
        IF s[kept[n]] = NEWLINE THEN <<NEWLINE, FALSE, FALSE>>
        ELSE <<s[kept[n]], LastMarkerIs(s, kept[n], "<bd>", "</bd>"),
               LastMarkerIs(s, kept[n], "<ins>", "</ins>")>>]

RECURSIVE EmittedTokens(_)
EmittedTokens(rs) ==
    IF rs = <<>> THEN <<>>
    ELSE (IF Head(rs).kind = "break" THEN << <<NEWLINE, FALSE, FALSE>> >>
          ELSE [k \in 1..Len(Head(rs).text) |->
                    <<Head(rs).text[k], Head(rs).bold, Head(rs).underline>>])
         \o EmittedTokens(Tail(rs))

Assembling ==
    \/ pc \in {"elements", "package", "done", "packaging_failed"}
    \/ pc = "assembly_failed" /\ failed_at = "elements"

\* The elements the loop has dealt with.
Processed == 1..(element_index - 1)

TrackTags == {"a1", "a2", "a3", "a4", "u1", "u2", "u3", "u4"}

\* The (assigned, track) pair of a track tag: a = assigned, u = unassigned;
\* 1..4 = small claims, fast, intermediate, multi.
TrackTagSelection(tag) ==
    << tag \in {"a1", "a2", "a3", "a4"},
       CASE tag \in {"a1", "u1"} -> "Small Claims Track"
         [] tag \in {"a2", "u2"} -> "Fast Track"
         [] tag \in {"a3", "u3"} -> "Intermediate Track"
         [] tag \in {"a4", "u4"} -> "Multi Track" >>

Selection == <<app_inputs["claim_assigned"], app_inputs["selected_track"]>>

Tagged(tag) == Element("general_paragraph", <<>>, tag, None)

\* C2: for every selection exactly one of the eight track tags is visible,
\* the one whose (assigned, track) pair equals the selection, and an
\* element carrying a track tag is rendered exactly when its tag is that
\* one; with claim_assigned=True and "Fast Track" a2 is rendered and a1, a3,
\* a4, u1..u4 are not.
C2_OneTrackTagVisible ==
    Assembling =>
        /\ Cardinality({t \in TrackTags : render_this_element(Tagged(t), app_inputs)}) = 1
        /\ \A t \in TrackTags :
               render_this_element(Tagged(t), app_inputs) <=> TrackTagSelection(t) = Selection
        /\ \A k \in Processed :
               logical_elements[k].block_tag \in TrackTags =>
                   (k \in rendered <=> TrackTagSelection(logical_elements[k].block_tag) = Selection)
        /\ Selection = <<TRUE, "Fast Track">> =>
               \A k \in Processed :
                   /\ logical_elements[k].block_tag = "a2" => k \in rendered
                   /\ logical_elements[k].block_tag \in TrackTags \ {"a2"} => k \notin rendered

\* With claim_assigned=True and "Fast Track", a paragraph tagged a2 is in the document.
C2_Witness ==
    /\ Assembling
    /\ Selection = <<TRUE, "Fast Track">>
    /\ \E k \in Processed :
           /\ logical_elements[k].block_tag = "a2"
           /\ logical_elements[k].type = "general_paragraph"
           /\ k \in rendered
    /\ Len(doc) >= 1

ClientTypeOf(tag) == IF tag = "indiv" THEN "Individual" ELSE "Corporate"

\* C3: whatever claim_assigned and selected_track are, exactly one of indiv
\* and corp is visible, the one of the selected client type, and an element
\* carrying one of them is rendered exactly when its tag is that one.
C3_OneClientTagVisible ==
    Assembling =>
        /\ Cardinality({t \in {"indiv", "corp"} : render_this_element(Tagged(t), app_inputs)}) = 1
        /\ \A k \in Processed :
               logical_elements[k].block_tag \in {"indiv", "corp"} =>
                   (k \in rendered
                        <=> ClientTypeOf(logical_elements[k].block_tag) = app_inputs["client_type"])

\* For an Individual with an assigned claim, a paragraph tagged corp was left out.
C3_Witness ==
    /\ Assembling
    /\ app_inputs["client_type"] = "Individual"
    /\ app_inputs["claim_assigned"]
    /\ \E k \in Processed :
           /\ logical_elements[k].block_tag = "corp"
           /\ logical_elements[k].type = "general_paragraph"
           /\ k \notin rendered

GradeCCell(hourly_rate) == "£" \o ToString(hourly_rate) \o " (Solicitors/Legal Executives under 4 years)"

IsFeeTable(item, hourly_rate) ==
    /\ Len(item.rows) = 5
    /\ \A r \in 1..5 : Len(item.rows[r]) = 2
    /\ item.rows[1] = <<"Grade A", "£450 (Partners, Solicitors over 8 years)">>
    /\ item.rows[2] = <<"Grade B", "£350 (Solicitors/Legal Executives over 4 years)">>
    /\ item.rows[3][1] = "Grade C"
    /\ item.rows[3][2] = GradeCCell(hourly_rate)
    /\ hourly_rate = 295 => item.rows[3][2] = "£295 (Solicitors/Legal Executives under 4 years)"
    /\ item.rows[4] = <<"Grade D", "£250 (Trainees, Paralegals)">>
    /\ item.rows[5] = <<"Grade E", "£150 (Support Staff)">>

\* C8: every visible fee_table element is rendered as a 5 x 2 table followed
\* by one spacer paragraph; the second cell of the third row reads
\* `£<hourly_rate> (Solicitors/Legal Executives under 4 years)` and the
\* other nine cells are the same strings for every input.
C8_FeeTable ==
    Assembling =>
        /\ \A k \in 1..Len(doc) :
               doc[k].kind = "table" =>
                   /\ IsFeeTable(doc[k], app_inputs["hourly_rate"])
                   /\ k < Len(doc)
                   /\ doc[k + 1].kind = "paragraph"
                   /\ doc[k + 1].runs = <<>>
        /\ Cardinality({k \in 1..Len(doc) : doc[k].kind = "table"})
               = Cardinality({k \in rendered : logical_elements[k].type = "fee_table"})

\* A fee table was rendered for an hourly rate other than the form's default.
C8_Witness ==
    /\ Assembling
    /\ app_inputs["hourly_rate"] = 300
    /\ \E k \in 1..Len(doc) : doc[k].kind = "table"

\* C9: when a step of the assembly fails, process_precedent_text returns no
\* document and the caller reports the error and offers no archive; a
\* document reaches the caller only from the end of the loop over the
\* elements, complete.
C9_NoPartialDocument ==
    /\ [](pc = "assembly_failed" =>
            /\ result = None
            /\ zip_io = None
            /\ messages = <<BuildErrorMessage>>)
    /\ [][(pc # "package" /\ pc' = "package") =>
            /\ pc = "elements"
            /\ element_index > Len(logical_elements)
            /\ result' = doc]_vars
    /\ [][pc = "assembly_failed" => pc' = "assembly_failed"]_vars

\* The assembly failed in the loop, after a first item had been added to the
\* document and before the last element.
C9_Witness ==
    /\ pc = "assembly_failed"
    /\ failed_at = "elements"
    /\ Len(doc) >= 1
    /\ element_index <= Len(logical_elements)

TemplateMissing == pc # "load" /\ precedent_content = <<>>

\* C10: when the template text cannot be loaded, the run stops before any
\* input is collected: no answers, no placeholder map, no parse and no
\* document ever exist while the template text is missing.
C10_StopsWithoutTemplate ==
    /\ (NotFoundMessage \in TokensOf(messages) \/ LoadErrorMessage \in TokensOf(messages))
           => TemplateMissing
    /\ TemplateMissing => pc \in {"loaded", "stopped"}
    /\ pc \in {"loaded", "stopped"} =>
           /\ app_inputs = None
           /\ placeholder_map = None
           /\ logical_elements = None
           /\ doc = None
           /\ result = None
           /\ zip_io = None

\* The file was not found and the run has stopped.
C10_Witness ==
    /\ pc = "stopped"
    /\ messages = <<NotFoundMessage>>
    /\ precedent_content = <<>>

\* ------------------------------------------------------------------------
\* Further properties of preprocess_precedent
\* ------------------------------------------------------------------------
\* The parser state in which line k of the template is read.
StateBefore(k) == parse_lines(ParserInit, SubSeq(precedent_content, 1, k - 1))

\* The block open when line k is read.
OpenTagAt(k) == StateBefore(k).current_block_tag

\* The content lines among the lines read so far, each with the block open
\* when it was read.
ReadWithTags ==
    LET ks == SelectSeq([k \in 1..(i - 1) |-> k], LAMBDA k : IsContentLine(precedent_content[k]))
    IN  [n \in 1..Len(ks) |-> <<precedent_content[ks[n]], OpenTagAt(ks[n])>>]

\* The emitted content lines, each with the block_tag of its element.
RECURSIVE EmittedWithTags(_)
EmittedWithTags(elements) ==
    IF elements = <<>> THEN <<>>
    ELSE (IF Head(elements).type = "blank_line" THEN <<>>
          ELSE [n \in 1..Len(Head(elements).content_lines) |->
                    <<Head(elements).content_lines[n], Head(elements).block_tag>>])
         \o EmittedWithTags(Tail(elements))

\* C11: every content line is emitted in an element whose block_tag is the
\* block that was open when the line was read (unset when none was), a
\* `[/T]` line read while T is open leaves no line buffered, and a buffered
\* line is always waiting under the tag it was read under.
C11_EmittedUnderTagRead ==
    pc \in {"scan", "parsed"} =>
        LET read == ReadWithTags
            emitted == EmittedWithTags(logical_elements)
        IN  /\ Len(emitted) <= Len(read)
            /\ \A n \in 1..Len(emitted) : emitted[n] = read[n]
            /\ pc = "parsed" => Len(emitted) = Len(read)
            /\ pc = "scan" =>
                   /\ Len(emitted) + Len(block_lines) = Len(read)
                   /\ \A n \in (Len(emitted) + 1)..Len(read) : read[n][2] = current_block_tag
            /\ (i > 1 /\ i - 1 <= Len(precedent_content)
                    /\ match_end_tag(Strip(precedent_content[i - 1])) # None
                    /\ match_end_tag(Strip(precedent_content[i - 1])) = OpenTagAt(i - 1))
                   => block_lines = <<>>


\* The classification flush_block gives a line standing first in a group,
\* with the list type of the line's own marker, or the group's when the
\* line has none.
LineClass(line, list_type) ==
    LET content == Strip(line)
        own == determine_list_type(line)
    IN  IF Contains(content, "<ins>") THEN "heading"
        ELSE IF Contains(content, "[FEE_TABLE_PLACEHOLDER]") THEN "fee_table"
        ELSE IF own # None THEN own
        ELSE IF list_type # None THEN list_type
        ELSE "general_paragraph"

\* C12: in every element returned by preprocess_precedent each line of
\* content_lines has the classification of the first line, and that
\* classification is the element's type.
C12_OneClassPerElement ==
    pc = "parsed" =>
        \A k \in 1..Len(logical_elements) :
            LET e == logical_elements[k] IN
            e.type # "blank_line" =>
                /\ LineClass(e.content_lines[1], e.list_type) = e.type
                /\ \A n \in 1..Len(e.content_lines) :
                       LineClass(e.content_lines[n], e.list_type)
                           = LineClass(e.content_lines[1], e.list_type)


\* The list markers that start the lines of a group.
MarkersIn(lines) == {determine_list_type(lines[n]) : n \in 1..Len(lines)} \ {None}

\* C13: no element, and no buffer, holds two lines starting with different
\* list markers; a line whose list marker differs from the active list type
\* flushes a non-empty buffer as one element and starts a new buffer.
C13_LevelsNeverMerged ==
    /\ [](pc \in {"scan", "parsed"} =>
            /\ \A k \in 1..Len(logical_elements) :
                   Cardinality(MarkersIn(logical_elements[k].content_lines)) <= 1
            /\ Cardinality(MarkersIn(block_lines)) <= 1)
    /\ [][(/\ pc = "scan" /\ i' = i + 1
           /\ IsContentLine(precedent_content[i])
           /\ determine_list_type(precedent_content[i]) # None
           /\ determine_list_type(precedent_content[i]) # current_list_type)
          => /\ block_lines' = <<precedent_content[i]>>
             /\ current_list_type' = determine_list_type(precedent_content[i])
             /\ block_lines # <<>> =>
                    /\ Len(logical_elements') = Len(logical_elements) + 1
                    /\ logical_elements'[Len(logical_elements')].content_lines = block_lines
             /\ block_lines = <<>> => logical_elements' = logical_elements]_vars

\* A numbered item directly followed by a letter item and a roman item gave
\* three elements of one line each.
C13_Witness ==
    /\ pc = "parsed"
    /\ precedent_content = << <<WS, "1.", " First item">>, <<"<a>", " sub item">>,
                              <<"<i>", " sub sub item">> >>
    /\ Len(logical_elements) = 3
    /\ logical_elements[1].type = "numbered"
    /\ logical_elements[2].type = "letter"
    /\ logical_elements[3].type = "roman"


\* ------------------------------------------------------------------------
\* Further properties of process_precedent_text
\* ------------------------------------------------------------------------
\* The number of items a rendered element of each type adds to the document.
OutputCount(e) ==
    IF e.type = "blank_line" THEN 0 ELSE IF e.type = "fee_table" THEN 2 ELSE 1

\* The number of items the elements before element k added to the document.
RECURSIVE OutputsBefore(_)
OutputsBefore(k) ==
    IF k <= 1 THEN 0
    ELSE OutputsBefore(k - 1)
         + (IF (k - 1) \in rendered THEN OutputCount(logical_elements[k - 1]) ELSE 0)

\* The first item element k added to the document.
ItemOf(k) == doc[OutputsBefore(k) + 1]

ParagraphTypes == {"heading", "numbered", "letter", "roman", "general_paragraph"}

\* The tokens of the template grammar, and the placeholders of the map.
ControlTokens ==
    Markers \cup {"1.", "<a>", "<i>", "[ind]", "[FEE_TABLE_PLACEHOLDER]", WS, NEWLINE}
    \cup {PlaceholderPattern(key) : key \in DictKeys(placeholder_map)}

\* The ordinary text of a line: its tokens that are not control tokens.
PlainTokens(line) == SelectSeq(line, LAMBDA tok : tok \notin ControlTokens)

\* The text of a paragraph: the texts of its runs, in order.
TextOf(paragraph) == Concat([n \in 1..Len(paragraph.runs) |-> paragraph.runs[n].text])

\* C14: for every rendered heading, list or general_paragraph element, the
\* ordinary text of every line of content_lines is in the text of the
\* element's paragraph, line after line in order.
C14_EveryLineRendered ==
    Assembling =>
        \A k \in rendered :
            LET e == logical_elements[k] IN
            e.type \in ParagraphTypes =>
                LET expected == Concat([n \in 1..Len(e.content_lines) |->
                                            PlainTokens(e.content_lines[n])])
                IN  SelectSeq(TextOf(ItemOf(k)), LAMBDA tok : tok \in TokensOf(expected)) = expected


ListTypes == {"numbered", "letter", "roman"}

\* The list marker of each list type.
MarkerToken(type) ==
    CASE type = "numbered" -> "1."
      [] type = "letter" -> "<a>"
      [] type = "roman" -> "<i>"

\* C15: the text of the paragraph rendered for a numbered, letter or roman
\* element never begins with the element's own list marker.
C15_MarkerStripped ==
    Assembling =>
        \A k \in rendered :
            LET e == logical_elements[k] IN
            e.type \in ListTypes =>
                ~StartsWith(LStrip(TextOf(ItemOf(k))), MarkerToken(e.type))


\* The visibility rule of the specification, section 4.4.
Visible(e) ==
    CASE e.block_tag = None -> TRUE
      [] e.block_tag \in {"indiv", "corp"} -> ClientTypeOf(e.block_tag) = app_inputs["client_type"]
      [] e.block_tag \in TrackTags -> TrackTagSelection(e.block_tag) = Selection

\* The item the document holds for element k is of the kind of the element's type.
ItemMatches(k) ==
    LET e == logical_elements[k]
        at == OutputsBefore(k) + 1
    IN  CASE e.type = "blank_line" -> TRUE
          [] e.type = "fee_table" ->
                /\ doc[at].kind = "table"
                /\ doc[at + 1].kind = "paragraph" /\ doc[at + 1].runs = <<>>
          [] e.type = "heading" ->
                /\ doc[at].kind = "paragraph" /\ doc[at].numPr = None /\ doc[at].space_before = 12
                /\ PlainTokens(e.content_lines[1])
                       = SelectSeq(TextOf(doc[at]),
                                   LAMBDA tok : tok \in TokensOf(PlainTokens(e.content_lines[1])))
          [] e.type \in ListTypes ->
                /\ doc[at].kind = "paragraph" /\ doc[at].numPr # None
                /\ PlainTokens(e.content_lines[1])
                       = SelectSeq(TextOf(doc[at]),
                                   LAMBDA tok : tok \in TokensOf(PlainTokens(e.content_lines[1])))
          [] e.type = "general_paragraph" ->
                /\ doc[at].kind = "paragraph" /\ doc[at].numPr = None /\ doc[at].space_before = None
                /\ PlainTokens(e.content_lines[1])
                       = SelectSeq(TextOf(doc[at]),
                                   LAMBDA tok : tok \in TokensOf(PlainTokens(e.content_lines[1])))

\* C16: the document holds, in element order, one paragraph for every
\* visible heading, numbered, letter, roman and general_paragraph element
\* and one table followed by one spacer paragraph for every visible
\* fee_table, and nothing else: blank_line elements and elements whose tag
\* does not match the selections add nothing; untagged elements are always
\* rendered.
C16_OneToOneInOrder ==
    Assembling =>
        /\ rendered = {k \in Processed : Visible(logical_elements[k])}
        /\ \A k \in Processed : logical_elements[k].block_tag = None => k \in rendered
        /\ Len(doc) = OutputsBefore(element_index)
        /\ \A k \in rendered : ItemMatches(k)

\* For an Individual the signature group gave one paragraph: the untagged
\* line was rendered, the corp line was skipped, the blank line added nothing.
C16_Witness ==
    /\ pc = "package"
    /\ app_inputs["client_type"] = "Individual"
    /\ Len(logical_elements) = 3
    /\ logical_elements[1].block_tag = None /\ logical_elements[1].type = "general_paragraph"
    /\ logical_elements[2].block_tag = "corp"
    /\ logical_elements[3].type = "blank_line"
    /\ rendered = {1, 3}
    /\ Len(doc) = 1


\* ------------------------------------------------------------------------
\* Properties of the single branches of preprocess_precedent
\* ------------------------------------------------------------------------
\* The step that reads line i.
ReadsLine == pc = "scan" /\ i <= Len(precedent_content) /\ i' = i + 1

\* C17: reading a blank line flushes a non-empty buffer as one element and
\* then appends exactly one blank_line element with empty content_lines,
\* tagged with the open block (unset when none is open); the buffer is left
\* empty and the open block unchanged.
C17_BlankLineEndsElement ==
    [][(ReadsLine /\ IsBlank(precedent_content[i])) =>
          LET n == Len(logical_elements)
              flushed == IF block_lines # <<>> THEN 1 ELSE 0
          IN  /\ Len(logical_elements') = n + flushed + 1
              /\ SubSeq(logical_elements', 1, n) = logical_elements
              /\ block_lines # <<>> =>
                     /\ logical_elements'[n + 1].content_lines = block_lines
                     /\ logical_elements'[n + 1].type # "blank_line"
              /\ logical_elements'[n + flushed + 1]
                     = Element("blank_line", <<>>, current_block_tag, None)
              /\ block_lines' = <<>>
              /\ current_block_tag' = current_block_tag]_vars

\* A blank line was read inside the block a2 with a line buffered.
C17_Witness ==
    /\ pc = "scan"
    /\ i = 4
    /\ Strip(precedent_content[1]) = <<"[a2]">>
    /\ IsContentLine(precedent_content[2])
    /\ IsBlank(precedent_content[3])
    /\ Len(logical_elements) = 2
    /\ logical_elements[1].content_lines = <<precedent_content[2]>>
    /\ logical_elements[2] = Element("blank_line", <<>>, "a2", None)
    /\ block_lines = <<>>
    /\ current_block_tag = "a2"


\* ------------------------------------------------------------------------
\* Further properties of add_formatted_runs
\* ------------------------------------------------------------------------
\* The toggles a line ends with: what the last marker of each pair set.
EndsBold(s) == LastMarkerIs(s, Len(s) + 1, "<bd>", "</bd>")
EndsUnderlined(s) == LastMarkerIs(s, Len(s) + 1, "<ins>", "</ins>")

\* C18: in every call both toggles start false; a text segment is bold
\* exactly when the last of `<bd>`/`</bd>` before it in the same line is
\* `<bd>`, and underlined exactly when the last of `<ins>`/`</ins>` before
\* it in the same line is `<ins>`, balanced or not; the state a line ends
\* with is not carried into the line rendered next.
C18_TogglesPerLine ==
    pc = "rendered" =>
        /\ EmittedTokens(runs) = ExpectedTokens(processed_text)
        /\ \A k \in 1..Len(runs) :
               /\ (runs[k].kind = "text" /\ "<bd>" \notin TokensOf(processed_text)) => ~runs[k].bold
               /\ (runs[k].kind = "text" /\ "<ins>" \notin TokensOf(processed_text))
                      => ~runs[k].underline
        /\ (Len(runs) >= 1 /\ processed_text # <<>> /\ processed_text[1] \notin Markers)
               => (~runs[1].bold /\ ~runs[1].underline)
        /\ (processed_text # <<>> /\ processed_text[Len(processed_text)] \notin Markers
                /\ runs # <<>>) =>
               /\ runs[Len(runs)].bold = EndsBold(processed_text)
               /\ runs[Len(runs)].underline = EndsUnderlined(processed_text)

\* A line that leaves bold on was rendered, and the line rendered after it
\* starts with a run that is not bold.
C18_Witness ==
    /\ pc = "rendered"
    /\ doc # <<>>
    /\ doc[1].runs # <<>>
    /\ doc[1].runs[Len(doc[1].runs)].bold
    /\ text_line = <<"Total: ", "</bd>", "{our_ref}">>
    /\ runs # <<>>
    /\ runs[1].text = <<"Total: ">>
    /\ ~runs[1].bold


\* The level each list type is attached to.
LevelOf(type) ==
    CASE type = "numbered" -> 0
      [] type = "letter" -> 1
      [] type = "roman" -> 2

\* The numbering instances and abstract definitions of the numbering part.
NumInstances == {k \in 1..Len(numbering) : numbering[k].kind = "num"}
AbstractNums == {k \in 1..Len(numbering) : numbering[k].kind = "abstractNum"}

\* C19: the document has one numbering instance, over one abstract
\* definition of the three levels decimal, lowerLetter, lowerRoman, created
\* once before the first element is rendered; every paragraph of a
\* numbered, letter or roman element refers to that instance at level 0, 1
\* or 2 by its type, and no heading, general_paragraph or fee_table item
\* carries a numbering reference.
C19_SharedNumbering ==
    /\ [](Assembling =>
            /\ Cardinality(NumInstances) = 1
            /\ Cardinality(AbstractNums) = 1
            /\ \A n \in NumInstances, a \in AbstractNums :
                   /\ numbering[n].abstractNumId = numbering[a].abstractNumId
                   /\ [l \in 1..Len(numbering[a].levels) |->
                           <<numbering[a].levels[l].ilvl, numbering[a].levels[l].numFmt>>]
                          = << <<0, "decimal">>, <<1, "lowerLetter">>, <<2, "lowerRoman">> >>
                   /\ \A k \in rendered :
                          LET e == logical_elements[k]
                              at == OutputsBefore(k) + 1
                          IN  /\ e.type \in ListTypes =>
                                     doc[at].numPr = <<LevelOf(e.type), numbering[n].numId>>
                              /\ e.type \in {"heading", "general_paragraph"} =>
                                     doc[at].numPr = None
                              /\ e.type = "fee_table" =>
                                     /\ doc[at].kind = "table"
                                     /\ doc[at + 1].numPr = None)
    /\ [][(pc = "resolved" /\ pc' = "preprocess" /\ doc' = <<>> /\ Len(numbering') = 2)
          \/ UNCHANGED numbering]_vars
    /\ [](pc \in {"load", "loaded", "stopped", "waiting", "resolve", "resolved"}
            => numbering = None)

\* The three list items of a template were rendered at levels 0, 1 and 2 of
\* the numbering instance.
C19_Witness ==
    /\ pc = "package"
    /\ Len(doc) = 3
    /\ \A k \in 1..3 : doc[k].kind = "paragraph"
    /\ doc[1].numPr = <<0, num_instance_id>>
    /\ doc[2].numPr = <<1, num_instance_id>>
    /\ doc[3].numPr = <<2, num_instance_id>>
    /\ Len(numbering) = 2


\* The tokens that open with a square bracket.
BracketTokens ==
    {StartTagToken(t) : t \in TagNames} \cup {EndTagToken(t) : t \in TagNames}
    \cup {"[a5]", "[/xyz]", "[ind]", "[FEE_TABLE_PLACEHOLDER]"}

\* A line that starts with a bracket and is not an open or close line of the tag set.
BracketedNotTag(raw) ==
    /\ Strip(raw) # <<>>
    /\ Head(Strip(raw)) \in BracketTokens
    /\ Strip(raw) \notin RecognisedTagLines

\* C20: reading a bracketed line that is not an open or close line of the
\* tag set leaves the open block and the active list type unchanged, emits
\* nothing and appends the line to the buffer; at the end of the parse every
\* such line is among the content lines of the elements.
C20_UnknownTagIsContent ==
    /\ [][(ReadsLine /\ BracketedNotTag(precedent_content[i])) =>
             /\ current_block_tag' = current_block_tag
             /\ current_list_type' = current_list_type
             /\ logical_elements' = logical_elements
             /\ block_lines' = Append(block_lines, precedent_content[i])]_vars
    /\ [](pc = "parsed" =>
             \A k \in 1..Len(precedent_content) :
                 BracketedNotTag(precedent_content[k])
                     => precedent_content[k] \in TokensOf(Flatten(logical_elements)))
    /\ [](pc = "scan" /\ i > Len(precedent_content) => ENABLED EndOfInput)

\* `[a5]` was read inside the block a2 after a numbered item and joined the buffer.
C20_Witness ==
    /\ pc = "scan"
    /\ i = 4
    /\ precedent_content[1] = <<"[a2]">>
    /\ precedent_content[2] = <<WS, "1.", " First item">>
    /\ precedent_content[3] = <<"[a5]">>
    /\ block_lines = <<precedent_content[2], precedent_content[3]>>
    /\ current_block_tag = "a2"
    /\ current_list_type = "numbered"
    /\ logical_elements = <<>>


\* The control tokens of the template that must not be read by the client.
MarkupTokens == Markers \cup {"<a>", "<i>", "[ind]"}

\* No value of the placeholder map carries a control token.
ValuesFreeOfMarkup ==
    \A k \in 1..Len(placeholder_map) : TokensOf(placeholder_map[k][2]) \cap MarkupTokens = {}

\* C21: when no value of the placeholder map carries a control token, no
\* text run of any paragraph of the document contains `<bd>`, `</bd>`,
\* `<ins>`, `</ins>`, `<a>`, `<i>` or `[ind]`, whatever the type of the
\* element the paragraph was rendered for.
C21_NoControlTokenInText ==
    (Assembling /\ ValuesFreeOfMarkup) =>
        \A k \in 1..Len(doc) :
            doc[k].kind = "paragraph" =>
                \A r \in 1..Len(doc[k].runs) :
                    TokensOf(doc[k].runs[r].text) \cap MarkupTokens = {}


\* ------------------------------------------------------------------------
\* The active list type
\* ------------------------------------------------------------------------
IsCloseTagLine(raw) == Strip(raw) \in {<<EndTagToken(t)>> : t \in TagNames}

IsMarkerLine(raw) == IsContentLine(raw) /\ determine_list_type(raw) # None

Highest(S) == CHOOSE j \in S : \A h \in S : h <= j

\* The type of the last list-marker line among the lines before line k that
\* follow the last close-tag line before line k; None when there is none.
LastMarkerSince(k) ==
    LET closes == {j \in 1..(k - 1) : IsCloseTagLine(precedent_content[j])}
        from == IF closes = {} THEN 0 ELSE Highest(closes)
        marks == {j \in (from + 1)..(k - 1) : IsMarkerLine(precedent_content[j])}
    IN  IF marks = {} THEN None ELSE determine_list_type(precedent_content[Highest(marks)])

\* An element of a group without list marker, heading marker or fee-table sentinel.
IsUnmarkedGroup(e) ==
    /\ e.type \notin {"blank_line", "heading", "fee_table"}
    /\ MarkersIn(e.content_lines) = {}

\* C22: a line starting with a list marker sets the active list type to the
\* marker's type, a close-tag line resets it to none, and no other line and
\* no other step changes it; so the active list type is that of the last
\* marker line read since the start or the last close-tag line, and a group
\* without list marker, heading marker or fee-table sentinel is emitted as
\* general_paragraph when there is no such marker line at the time of its
\* flush and with that line's list type otherwise.
C22_ActiveListType ==
    /\ [][ReadsLine =>
             current_list_type' =
                 IF IsCloseTagLine(precedent_content[i]) THEN None
                 ELSE IF IsMarkerLine(precedent_content[i])
                      THEN determine_list_type(precedent_content[i])
                      ELSE current_list_type]_vars
    /\ [][(pc = "scan" /\ i' = i) => current_list_type' = current_list_type]_vars
    /\ [](pc = "scan" => current_list_type = LastMarkerSince(i))
    /\ [][pc = "scan" =>
             \A n \in (Len(logical_elements) + 1)..Len(logical_elements') :
                 IsUnmarkedGroup(logical_elements'[n]) =>
                     logical_elements'[n].type =
                         IF LastMarkerSince(i) = None THEN "general_paragraph"
                         ELSE LastMarkerSince(i)]_vars

\* A line without marker that follows a numbered item and a blank line was
\* emitted as a numbered element.
C22_Witness ==
    /\ pc = "parsed"
    /\ precedent_content = << <<WS, "1.", " First item">>, <<>>, <<"Dear ", "{client_salutation}">> >>
    /\ Len(logical_elements) = 3
    /\ logical_elements[3].content_lines = << <<"Dear ", "{client_salutation}">> >>
    /\ logical_elements[3].type = "numbered"

====
